---- MODULE Spec2Model ----
(***************************************************************************)
(* A model of exploration/kilo/kilo.c: the raw-mode controller, the input  *)
(* decoder, the render pipeline and the cursor/viewport/mode state machine. *)
(* Bytes are their ASCII codes; an output is the sequence of bytes of one   *)
(* write(2) to the terminal.  The model starts at main() after the argc     *)
(* check (kilo.c line 493).                                                 *)
(***************************************************************************)
EXTENDS Integers, Sequences, FiniteSets, TLC

VARIABLES
  pc,          \* position of the process: "main", "initEditor", "editorOpen", "getline",
               \* "loop" (the key loop), "atexit" (exit() runs the hooks), "exited", "crashed"
  E,           \* struct editorConfig E
  mem,         \* the heap block E.rows points to: the row table and how often it was freed
  term,        \* the attributes the terminal driver currently holds
  hooks,       \* functions registered with atexit(), in registration order
  exit_codes,  \* the arguments of the calls of exit(), in call order
  err,         \* the messages perror() wrote, each with the terminal attributes at that time
  out,         \* the bytes of the most recent successful write() to STDOUT_FILENO
  writer,      \* the function that called that write()
  lost,        \* the number of abAppend calls whose bytes are missing from that write()
               \* because realloc returned NULL
  painted,     \* the value of E.row_offset the most recent editorRefreshScreen drew with
  printed,     \* the printf() calls of the current editorProcessKeypress call
  nread,       \* the result of the most recent first read() of editorReadKey
  inp,         \* the results of the read() calls that produced the current key
  key,         \* the local c of editorProcessKeypress: the key editorReadKey returned
  file,        \* the opened file: its lines, and how many of them getline() has returned
  tc,          \* the outcome of each terminal attribute call: tcgetattr (get), tcsetattr of
               \* the raw attributes (raw), tcsetattr of original_termios (restore)
  oom          \* whether memory is so short in this run that the realloc of an append
               \* buffer can return NULL

vars == <<pc, E, mem, term, hooks, exit_codes, err, out, writer, lost, painted, printed, nread,
          inp, key, file, tc, oom>>

(***************************************************************************)
(* Bounds of the model.                                                    *)
(***************************************************************************)
MaxScreenRows == 2
MaxScreenCols == 2
MaxLines == 3

(***************************************************************************)
(* Bytes the program names.                                                *)
(***************************************************************************)
ESC == 27
LBRACKET == 91
CHAR_A == 65
CHAR_B == 66
CHAR_C == 67
CHAR_D == 68
CHAR_i == 105
CHAR_q == 113
CHAR_r == 114
LF == 10
CR == 13
NUL == 0
TILDE == 126
INITIAL_CAPACITY == 16

ARROW_LEFT == 104
ARROW_RIGHT == 108
ARROW_UP == 107
ARROW_DOWN == 106

\* k & 0x1F
CTRL_KEY(k) == k % 32

NULL == "NULL"
NoByte == -1
NoKey == -1
NoOffset == -1

(***************************************************************************)
(* The environment: files, keys, window sizes.                             *)
(***************************************************************************)
\* Two documents, as the lines getline() returns them ("a\n", "bb\r\n",
\* "ccc\n", "\n", ...); a file holds the first n lines of one of them.
Doc1 == << <<97, LF>>, <<98, 98, CR, LF>>, <<99, 99, 99, LF>>, <<LF>>, <<100, CR, CR, LF>> >>
Doc2 == << <<LF>>, <<120, 121, 122, CR, LF>>, <<CR, LF>>, <<97, LF>>, <<98, LF>> >>

Files == { SubSeq(d, 1, n) : d \in {Doc1, Doc2}, n \in 0..MaxLines }

\* A file with one line more than the first row table holds: a line with a
\* '\r' inside and "\r\n" at its end, an empty line, lines ending in '\n',
\* and a last line without a newline.
LongDoc ==
  [i \in 1..(INITIAL_CAPACITY + 1) |->
     IF i = INITIAL_CAPACITY + 1 THEN <<96 + i>>
     ELSE IF i = 2 THEN <<96 + i, CR, 96 + i, CR, LF>>
     ELSE IF i = 3 THEN <<LF>>
     ELSE <<96 + i, LF>>]

LongFiles == Files \cup {LongDoc}

\* First bytes a key press can deliver, and the bytes that can follow an escape.
\* (120 is x, a key no switch case names)
FirstBytes == { ARROW_LEFT, ARROW_DOWN, ARROW_UP, ARROW_RIGHT, CHAR_i, 120,
                CTRL_KEY(CHAR_q), CTRL_KEY(CHAR_r), ESC }
FollowBytes == { LBRACKET, CHAR_A, CHAR_B, CHAR_C, CHAR_D }
\* seq[2] is never written before printf reads it: any byte.
Garbage == { NUL, 120 }

Front(s) == SubSeq(s, 1, Len(s) - 1)
Last(s) == s[Len(s)]

(***************************************************************************)
(* Append buffer and the escape sequences written to the terminal.         *)
(***************************************************************************)
\* struct abuf {buf, len}: len is Len(buf).  Beside the buffer the record
\* carries the number of realloc calls made for it so far and the set of
\* calls, by number, for which realloc returns NULL.
ABUF_INIT == [buf |-> <<>>, calls |-> 0, fails |-> {}]

\* an empty append buffer on heap m
abufOn(m) == [ABUF_INIT EXCEPT !.fails = m.fails]

\* when realloc returns NULL the bytes are dropped and the buffer is left as it was
abAppend(ab, s, len) ==
  IF (ab.calls + 1) \in ab.fails
  THEN [ab EXCEPT !.calls = @ + 1]
  ELSE [ab EXCEPT !.calls = @ + 1, !.buf = @ \o SubSeq(s, 1, len)]

hideCursor(ab) == abAppend(ab, <<ESC, LBRACKET, 63, 50, 53, 108>>, 6)

showCursor(ab) == abAppend(ab, <<ESC, LBRACKET, 63, 50, 53, 104>>, 6)

resetCrusorPosition(ab) == abAppend(ab, <<ESC, LBRACKET, 72>>, 3)

clearScreen(ab) == resetCrusorPosition(abAppend(ab, <<ESC, LBRACKET, 50, 74>>, 4))

\* printf's %d
RECURSIVE Dec(_)
Dec(n) ==
  IF n < 0 THEN <<45>> \o Dec(0 - n)
  ELSE IF n < 10 THEN <<48 + n>>
  ELSE Dec(n \div 10) \o <<48 + (n % 10)>>

\* snprintf(buf, sizeof(buf), "\x1b[%d;%dH", rows, cols)
CursorSeq(rows, cols) == <<ESC, LBRACKET>> \o Dec(rows) \o <<59>> \o Dec(cols) \o <<72>>

moveCursor(rows, cols) == CursorSeq(rows, cols)

moveCursorToCurrentPos(e) == moveCursor((e.cur_row - e.row_offset) + 1, e.cur_col + 1)

(***************************************************************************)
(* Output.                                                                 *)
(***************************************************************************)
\* the heap a refresh runs on: the row table, and the realloc calls that fail
Heap(m, f) == [rows |-> m.rows, fails |-> f]

\* which of the n realloc calls of a frame fail: none, or, when memory is
\* short, one of them
FailSets(n) == { {} } \cup (IF oom THEN { {i} : i \in 1..n } ELSE {})

\* The turns y, y+1, ... of the loop of editorDrawRows.  (A turn calls
\* abAppend at least twice; comparing the call counts has the buffer of
\* one turn evaluated before the next turn starts.)
RECURSIVE DrawRowsFrom(_, _, _, _)
DrawRowsFrom(ab, e, m, y) ==
  IF ~(y < e.screen_rows) THEN ab
  ELSE LET file_row == y + e.row_offset
           a1 == IF file_row < e.num_rows
                 THEN LET len == m.rows[file_row + 1].size
                      IN abAppend(ab, m.rows[file_row + 1].contents,
                                  IF len > e.screen_cols THEN e.screen_cols ELSE len)
                 ELSE abAppend(ab, <<TILDE>>, 1)
           a2 == abAppend(a1, <<ESC, LBRACKET, 75>>, 3)
           a3 == IF y < e.screen_rows - 1 THEN abAppend(a2, <<CR, LF>>, 2) ELSE a2
       IN IF a3.calls > ab.calls THEN DrawRowsFrom(a3, e, m, y + 1) ELSE a3

editorDrawRows(ab, e, m) == DrawRowsFrom(ab, e, m, 0)

\* editorScroll with the second offset computed without the + 1
editorScroll_NoPlusOne(e) ==
  LET e1 == IF e.cur_row < e.row_offset
            THEN [e EXCEPT !.row_offset = e.cur_row] ELSE e
      e2 == IF e1.cur_row >= e1.row_offset + e1.screen_rows
            THEN [e1 EXCEPT !.row_offset = e1.cur_row - e1.screen_rows] ELSE e1
  IN [E |-> e2, scrolled |-> e2.row_offset # e.row_offset]

editorScroll(e) ==
  LET e1 == IF e.cur_row < e.row_offset
            THEN [e EXCEPT !.row_offset = e.cur_row] ELSE e
      s1 == e.cur_row < e.row_offset
      e2 == IF e1.cur_row >= e1.row_offset + e1.screen_rows
            THEN [e1 EXCEPT !.row_offset = e1.cur_row - e1.screen_rows + 1] ELSE e1
      s2 == e1.cur_row >= e1.row_offset + e1.screen_rows
  IN [E |-> e2, scrolled |-> s1 \/ s2]

\* The frame editorRefreshScreen stages in its append buffer once the scroll
\* offset is recomputed; buf holds the cursor position sequence.  m is the
\* heap: the row table, and the realloc calls of this frame that fail.
Frame(e1, m, buf) ==
  showCursor(abAppend(editorDrawRows(resetCrusorPosition(hideCursor(abufOn(m))), e1, m),
                      buf, Len(buf)))

\* write(STDOUT_FILENO, ab.buf, ab.len)
Written(e1, ab) ==
  [E |-> e1, out |-> ab.buf, calls |-> ab.calls, by |-> "editorRefreshScreen",
   lost |-> Cardinality({ i \in ab.fails : i <= ab.calls }), row_offset |-> e1.row_offset]

Refreshed(e1, m) ==
  Written(e1, Frame(e1, m, CursorSeq((e1.cur_row - e1.row_offset) + 1, e1.cur_col + 1)))

\* The editor state after the refresh and the bytes of its one write().
editorRefreshScreen(e, m) == Refreshed(editorScroll(e).E, m)

\* the terminal after the write w
Wrote(w) ==
  /\ out' = w.out
  /\ writer' = w.by
  /\ lost' = w.lost
  /\ painted' = IF w.by = "editorRefreshScreen" THEN w.row_offset ELSE painted

(***************************************************************************)
(* Termination: editorFree, die, exit and the exit hooks.                  *)
(***************************************************************************)
\* free() of every row's contents and of the table, when E.rows is not NULL.
editorFree(e, m) ==
  IF e.rows # NULL THEN [m EXCEPT !.frees = @ + 1] ELSE m

\* editorFree frees memory that was freed before (E.rows is never reset).
DoubleFree(e, m) == e.rows # NULL /\ m.frees >= 1

\* die(s), called with the editor state e and the heap m.  The screen-clearing bytes are
\* staged in a local append buffer that is freed without being written.
\* A second free of the row table is undefined: the allocator aborts the
\* process there, or the call goes on.  exit() called from an exit hook is
\* undefined too: the remaining hooks run under the new status, or the
\* process crashes.
Die(s, e, m) ==
  LET ab == clearScreen(ABUF_INIT).buf
      m2 == editorFree(e, m)
  IN /\ mem' = m2
     /\ \/ /\ DoubleFree(e, m)
           /\ pc' = "crashed"
           /\ UNCHANGED <<err, exit_codes>>
        \/ /\ err' = Append(err, [msg |-> s, term |-> term])
           /\ exit_codes' = Append(exit_codes, 1)
           /\ IF pc = "atexit" THEN pc' \in {"atexit", "crashed"} ELSE pc' = "atexit"

\* exit from the key loop with status 1 whatever the code
Exit_Status1(code) ==
  /\ exit_codes' = Append(exit_codes, 1)
  /\ pc' = "atexit"

\* exit(code) from the key loop
Exit(code) ==
  /\ exit_codes' = Append(exit_codes, code)
  /\ pc' = "atexit"

(***************************************************************************)
(* Raw mode.                                                               *)
(***************************************************************************)
\* disableRawMode, run as an exit hook
disableRawMode ==
  /\ pc = "atexit" /\ hooks # <<>> /\ Last(hooks) = "disableRawMode"
  /\ hooks' = Front(hooks)
  /\ \E ok \in BOOLEAN :
       IF ok
       THEN /\ term' = E.original_termios
            /\ tc' = [tc EXCEPT !.restore = "ok"]
            /\ UNCHANGED <<pc, mem, err, exit_codes>>
       ELSE /\ tc' = [tc EXCEPT !.restore = "failed"]
            /\ Die("tcsetattr", E, mem)
            /\ UNCHANGED term
  /\ UNCHANGED <<E, out, writer, lost, painted, printed, nread, inp, key, file, oom>>

\* editorFree, run as an exit hook
editorFreeHook ==
  /\ pc = "atexit" /\ hooks # <<>> /\ Last(hooks) = "editorFree"
  /\ hooks' = Front(hooks)
  /\ mem' = editorFree(E, mem)
  /\ IF DoubleFree(E, mem) THEN pc' \in {"atexit", "crashed"} ELSE pc' = "atexit"
  /\ UNCHANGED <<E, term, exit_codes, err, out, writer, lost, painted, printed, nread, inp,
                 key, file, tc, oom>>

\* exit() after the last hook: the process ends with the status of the last exit() call
ProcessEnd ==
  /\ pc = "atexit" /\ hooks = <<>>
  /\ pc' = "exited"
  /\ UNCHANGED <<E, mem, term, hooks, exit_codes, err, out, writer, lost, painted, printed,
                 nread, inp, key, file, tc, oom>>

enableRawMode ==
  /\ pc = "main"
  /\ \E got \in BOOLEAN, set \in BOOLEAN :
       IF ~got
       THEN /\ tc' = [tc EXCEPT !.get = "failed"]
            /\ Die("tcgetattr", E, mem)
            /\ UNCHANGED <<E, term, hooks>>
       ELSE LET e1 == [E EXCEPT !.original_termios = term]
            IN /\ E' = e1
               /\ hooks' = Append(hooks, "disableRawMode")
               /\ IF set
                  THEN /\ tc' = [tc EXCEPT !.get = "ok", !.raw = "ok"]
                       /\ term' = "raw"
                       /\ pc' = "initEditor"
                       /\ UNCHANGED <<mem, err, exit_codes>>
                  ELSE /\ tc' = [tc EXCEPT !.get = "ok", !.raw = "failed"]
                       /\ Die("tcsetattr", e1, mem)
                       /\ UNCHANGED term
  /\ UNCHANGED <<out, writer, lost, painted, printed, nread, inp, key, file, oom>>

(***************************************************************************)
(* Init.                                                                   *)
(***************************************************************************)
\* getWindowSize with the outcome of ioctl(TIOCGWINSZ) and of the two writes
\* of the fallback probe.  The fallback never returns 0: the result of
\* getCursorPosition is dropped and -1 is returned after it.
getWindowSize(ws, w12, w4) ==
  IF ~ws.ok \/ ws.ws_col = 0
  THEN IF ~w12
       THEN [ret |-> -1, rows |-> 0, cols |-> 0, wrote |-> <<>>]
       ELSE [ret |-> -1, rows |-> 0, cols |-> 0,
             wrote |-> IF w4 THEN <<ESC, LBRACKET, 54, 110>>
                       ELSE <<ESC, LBRACKET, 57, 57, 57, 67, ESC, LBRACKET, 57, 57, 57, 66>>]
  ELSE [ret |-> 0, rows |-> ws.ws_row, cols |-> ws.ws_col, wrote |-> <<>>]

WindowSizes ==
  [ok : BOOLEAN, ws_row : 0..MaxScreenRows, ws_col : 0..MaxScreenCols]

initEditor ==
  /\ pc = "initEditor"
  /\ \E ws \in WindowSizes, w12 \in BOOLEAN, w4 \in BOOLEAN :
       LET e0 == [E EXCEPT !.cur_row = 0, !.cur_col = 0, !.row_offset = 0,
                           !.mode = "NORMAL", !.num_rows = 0, !.row_capacity = 0,
                           !.rows = NULL]
           g == getWindowSize(ws, w12, w4)
       IN /\ out' = IF g.wrote = <<>> THEN out ELSE g.wrote
          /\ writer' = IF g.wrote = <<>> THEN writer ELSE "getWindowSize"
          /\ UNCHANGED <<lost, painted>>
          /\ IF g.ret = -1
             THEN /\ E' = e0
                  /\ Die("getWindowSize", e0, mem)
                  /\ UNCHANGED hooks
             ELSE /\ E' = [e0 EXCEPT !.screen_rows = g.rows, !.screen_cols = g.cols]
                  /\ hooks' = Append(hooks, "editorFree")
                  /\ pc' = "editorOpen"
                  /\ UNCHANGED <<mem, err, exit_codes>>
  /\ UNCHANGED <<term, printed, nread, inp, key, file, tc, oom>>

(***************************************************************************)
(* Row operations and the file.                                            *)
(***************************************************************************)
\* the strip loop dropping '\n' only
RECURSIVE StripLen_OnlyLF(_, _)
StripLen_OnlyLF(line, linelen) ==
  IF linelen > 0 /\ line[linelen] = LF
  THEN StripLen_OnlyLF(line, linelen - 1)
  ELSE linelen

\* linelen after the trailing '\n' and '\r' are dropped
RECURSIVE StripLen(_, _)
StripLen(line, linelen) ==
  IF linelen > 0 /\ (line[linelen] = LF \/ line[linelen] = CR)
  THEN StripLen(line, linelen - 1)
  ELSE linelen

\* editorAppendRow(s, len); ra and ma say whether realloc and malloc succeed.
\* fatal names the message die is called with, "" when the row was appended.
editorAppendRow(e, m, s, len, ra, ma) ==
  LET grow == e.num_rows >= e.row_capacity
      new_capacity == IF e.row_capacity = 0 THEN INITIAL_CAPACITY ELSE e.row_capacity * 2
      e1 == IF grow
            THEN IF ra THEN [e EXCEPT !.rows = "table", !.row_capacity = new_capacity]
                 ELSE [e EXCEPT !.rows = NULL]
            ELSE e
      m1 == IF grow /\ ra THEN [m EXCEPT !.frees = 0] ELSE m
      row == [size |-> len, contents |-> SubSeq(s, 1, len) \o <<NUL>>]
  IN IF grow /\ ~ra THEN [E |-> e1, mem |-> m1, fatal |-> "realloc rows"]
     ELSE IF ~ma THEN [E |-> e1, mem |-> m1, fatal |-> "malloc row contents"]
     ELSE [E |-> [e1 EXCEPT !.num_rows = @ + 1],
           mem |-> [m1 EXCEPT !.rows = Append(@, row)],
           fatal |-> ""]

\* fopen in editorOpen
editorOpen ==
  /\ pc = "editorOpen"
  /\ \E ok \in BOOLEAN :
       IF ok
       THEN /\ pc' = "getline"
            /\ UNCHANGED <<mem, err, exit_codes>>
       ELSE Die("fopen", E, mem)
  /\ UNCHANGED <<E, term, hooks, out, writer, lost, painted, printed, nread, inp, key, file,
                 tc, oom>>

\* one turn of the getline loop of editorOpen
editorOpenLine ==
  /\ pc = "getline" /\ file.pos < Len(file.lines)
  /\ file' = [file EXCEPT !.pos = @ + 1]
  /\ \E ra \in BOOLEAN, ma \in BOOLEAN :
       LET line == file.lines[file.pos + 1]
           r == editorAppendRow(E, mem, line, StripLen(line, Len(line)), ra, ma)
       IN /\ E' = r.E
          /\ IF r.fatal = ""
             THEN /\ mem' = r.mem
                  /\ pc' = "getline"
                  /\ UNCHANGED <<err, exit_codes>>
             ELSE Die(r.fatal, r.E, r.mem)
  /\ UNCHANGED <<term, hooks, out, writer, lost, painted, printed, nread, inp, key, tc, oom>>

\* getline returns -1: editorOpen returns and main draws the first frame
editorOpenEOF ==
  /\ pc = "getline" /\ file.pos = Len(file.lines)
  /\ \E f \in FailSets(editorRefreshScreen(E, Heap(mem, {})).calls) :
       LET r == editorRefreshScreen(E, Heap(mem, f))
       IN /\ E' = r.E
          /\ Wrote(r)
  /\ pc' = "loop"
  /\ UNCHANGED <<mem, term, hooks, exit_codes, err, printed, nread, inp, key, file, tc, oom>>

(***************************************************************************)
(* Input.                                                                  *)
(***************************************************************************)
\* editorReadKey with the cases 'C' and 'D' exchanged
editorReadKey_Swapped(reads) ==
  LET c == reads[1]
  IN IF c = ESC
     THEN IF reads[2] = NoByte THEN ESC
          ELSE IF reads[3] = NoByte THEN ESC
          ELSE IF reads[2] = LBRACKET
               THEN CASE reads[3] = CHAR_A -> ARROW_UP
                      [] reads[3] = CHAR_B -> ARROW_DOWN
                      [] reads[3] = CHAR_C -> ARROW_LEFT
                      [] reads[3] = CHAR_D -> ARROW_RIGHT
                      [] OTHER -> ESC
               ELSE ESC
     ELSE c

\* editorReadKey on the results of its read() calls: reads[1] is the byte of
\* the first read that returned one, reads[2] and reads[3] are the results
\* of the reads after an escape byte, NoByte for a read that returned no byte.
editorReadKey(reads) ==
  LET c == reads[1]
  IN IF c = ESC
     THEN IF reads[2] = NoByte THEN ESC
          ELSE IF reads[3] = NoByte THEN ESC
          ELSE IF reads[2] = LBRACKET
               THEN CASE reads[3] = CHAR_A -> ARROW_UP
                      [] reads[3] = CHAR_B -> ARROW_DOWN
                      [] reads[3] = CHAR_C -> ARROW_RIGHT
                      [] reads[3] = CHAR_D -> ARROW_LEFT
                      [] OTHER -> ESC
               ELSE ESC
     ELSE c

\* the printf calls of editorReadKey; g is the byte found in seq[2]
editorReadKeyPrintf(reads, g) ==
  IF reads[1] # ESC THEN <<>>
  ELSE IF reads[2] = NoByte THEN << [fmt |-> "didn't read the 1st byte", args |-> <<>>] >>
  ELSE IF reads[3] = NoByte THEN << [fmt |-> "didn't read the 2nd byte", args |-> <<>>] >>
  ELSE IF reads[2] = LBRACKET THEN << [fmt |-> "%c, %c", args |-> <<reads[3], g>>] >>
  ELSE <<>>

\* What one mode's switch does: the editor state, the write() calls, the
\* printf() calls, and whether exit(0) was called.
Effect(e, wrote, prints, exit) == [E |-> e, wrote |-> wrote, printed |-> prints, exit |-> exit]

\* a full refresh, as a switch case
FullRefresh(r) == Effect(r.E, <<r>>, <<>>, FALSE)

\* the write() of moveCursor: the buffer is on the stack, no realloc is called
Moved_Cursor(e1, buf) ==
  [E |-> e1, out |-> buf, calls |-> 0, by |-> "moveCursor", lost |-> 0,
   row_offset |-> NoOffset]

\* a cursor-only reposition, as a switch case
Reposition(e1) == Effect(e1, <<Moved_Cursor(e1, moveCursorToCurrentPos(e1))>>, <<>>, FALSE)

\* if (editorScroll()) editorRefreshScreen(); else moveCursorToCurrentPos();
AfterScroll(s, m) ==
  IF s.scrolled THEN FullRefresh(editorRefreshScreen(s.E, m)) ELSE Reposition(s.E)

\* ARROW_DOWN with the guard E.cur_row < E.num_rows
ArrowDown_OffByOne(e) == IF e.cur_row < e.num_rows THEN [e EXCEPT !.cur_row = @ + 1] ELSE e

ArrowDown(e) == IF e.cur_row < e.num_rows - 1 THEN [e EXCEPT !.cur_row = @ + 1] ELSE e

ArrowUp(e) == IF e.cur_row > 0 THEN [e EXCEPT !.cur_row = @ - 1] ELSE e

\* ARROW_RIGHT with the guard E.cur_col < E.screen_cols
ArrowRight_OffByOne(e) == IF e.cur_col < e.screen_cols THEN [e EXCEPT !.cur_col = @ + 1] ELSE e

ArrowRight(e) == IF e.cur_col < e.screen_cols - 1 THEN [e EXCEPT !.cur_col = @ + 1] ELSE e

ArrowLeft(e) == IF e.cur_col > 0 THEN [e EXCEPT !.cur_col = @ - 1] ELSE e

\* the cursor motion of a directional key, before the scroll recomputation
Moved(e, c) ==
  CASE c = ARROW_DOWN -> ArrowDown(e)
    [] c = ARROW_UP -> ArrowUp(e)
    [] c = ARROW_RIGHT -> ArrowRight(e)
    [] c = ARROW_LEFT -> ArrowLeft(e)

\* the switch of editorProcessKeypress under E.mode == NORMAL
NormalMode(e, m, c) ==
  CASE c = ARROW_DOWN \/ c = ARROW_UP -> AfterScroll(editorScroll(Moved(e, c)), m)
    [] c = ARROW_RIGHT \/ c = ARROW_LEFT -> Reposition(Moved(e, c))
    [] c = CHAR_i -> Effect([e EXCEPT !.mode = "INSERT"], <<>>, <<>>, FALSE)
    [] c = CTRL_KEY(CHAR_q) -> Effect(e, <<>>, <<>>, TRUE)
    [] c = CTRL_KEY(CHAR_r) -> FullRefresh(editorRefreshScreen(e, m))
    [] OTHER -> Effect(e, <<>>, <<>>, FALSE)

\* the INSERT switch without the case of the escape key
InsertMode_NoEscape(e, m, c) ==
  CASE c = CTRL_KEY(CHAR_q) -> Effect(e, <<>>, <<>>, TRUE)
    [] c = CTRL_KEY(CHAR_r) -> FullRefresh(editorRefreshScreen(e, m))
    [] OTHER -> Effect(e, <<>>, << [fmt |-> "%d ('%c')\r\n", args |-> <<c, c>>] >>, FALSE)

\* the switch of editorProcessKeypress under E.mode == INSERT
InsertMode(e, m, c) ==
  CASE c = ESC -> Effect([e EXCEPT !.mode = "NORMAL"], <<>>, <<>>, FALSE)
    [] c = CTRL_KEY(CHAR_q) -> Effect(e, <<>>, <<>>, TRUE)
    [] c = CTRL_KEY(CHAR_r) -> FullRefresh(editorRefreshScreen(e, m))
    [] OTHER -> Effect(e, <<>>, << [fmt |-> "%d ('%c')\r\n", args |-> <<c, c>>] >>, FALSE)

\* the NORMAL switch run without the test of the mode
NormalPart_AnyMode(e, m, c) == NormalMode(e, m, c)

\* if (E.mode == NORMAL) { switch ... }
NormalPart(e, m, c) ==
  IF e.mode = "NORMAL" THEN NormalMode(e, m, c) ELSE Effect(e, <<>>, <<>>, FALSE)

\* if (E.mode == INSERT) { switch ... }, reached unless the first switch called
\* exit; it reads the mode the first switch left.
InsertPart(n, m, c) ==
  IF ~n.exit /\ n.E.mode = "INSERT" THEN InsertMode(n.E, m, c)
  ELSE Effect(n.E, <<>>, <<>>, FALSE)

Both(n, i) == Effect(i.E, n.wrote \o i.wrote, n.printed \o i.printed, n.exit \/ i.exit)

ThenInsert(n, m, c) == Both(n, InsertPart(n, m, c))

\* The two mode tests of editorProcessKeypress, one after the other.
Dispatch(e, m, c) == ThenInsert(NormalPart(e, m, c), m, c)

\* the state after editorProcessKeypress read key c and its switches did d
Processed(reads, g, c, d) ==
  /\ nread' = 1
  /\ inp' = reads
  /\ key' = c
  /\ printed' = editorReadKeyPrintf(reads, g) \o d.printed
  /\ E' = d.E
  /\ IF d.wrote = <<>> THEN UNCHANGED <<out, writer, lost, painted>> ELSE Wrote(Last(d.wrote))
  /\ IF d.exit THEN Exit(0) ELSE UNCHANGED <<pc, exit_codes>>
  /\ UNCHANGED <<mem, term, hooks, err, file, tc, oom>>

\* The realloc calls that fail among the calls of the refresh, if any, that
\* the switches d0 make.
Failures(d0) == FailSets(IF d0.wrote = <<>> THEN 0 ELSE Last(d0.wrote).calls)

Dispatched(reads, g, c) ==
  \E f \in Failures(Dispatch(E, Heap(mem, {}), c)) :
    Processed(reads, g, c, Dispatch(E, Heap(mem, f), c))

\* editorProcessKeypress for the key that the reads deliver
ProcessKey(reads, g) == Dispatched(reads, g, editorReadKey(reads))

\* What the read() calls of one editorReadKey call can return once a byte has
\* arrived, with the byte seq[2] holds when it is printed.
KeyReads ==
  { <<<<c>>, NUL>> : c \in FirstBytes \ {ESC} }
  \cup { <<<<ESC, NoByte>>, NUL>> }
  \cup { <<<<ESC, b, NoByte>>, NUL>> : b \in {LBRACKET, CHAR_A} }
  \cup { <<<<ESC, CHAR_A, b2>>, NUL>> : b2 \in {LBRACKET, CHAR_A} }
  \cup { <<<<ESC, LBRACKET, b2>>, g>> : b2 \in FollowBytes, g \in Garbage }

editorProcessKeypress ==
  /\ pc = "loop"
  /\ \E k \in KeyReads : ProcessKey(k[1], k[2])

\* the first read() of editorReadKey returns 0, or -1 with EAGAIN: read again
editorReadKeyRetry ==
  /\ pc = "loop"
  /\ \E n \in {0, -1} : nread' = n
  /\ inp' = <<>> /\ key' = NoKey /\ printed' = <<>>
  /\ UNCHANGED <<pc, E, mem, term, hooks, exit_codes, err, out, writer, lost, painted, file,
                 tc, oom>>

\* the first read() of editorReadKey returns -1 with another errno
editorReadKeyFail ==
  /\ pc = "loop"
  /\ nread' = -1
  /\ inp' = <<>> /\ key' = NoKey /\ printed' = <<>>
  /\ Die("read", E, mem)
  /\ UNCHANGED <<E, term, hooks, out, writer, lost, painted, file, tc, oom>>

(***************************************************************************)
(* The specification.                                                      *)
(***************************************************************************)
\* struct editorConfig E before main runs: a zeroed global
E0 ==
  [cur_row |-> 0, cur_col |-> 0, row_offset |-> 0, screen_rows |-> 0, screen_cols |-> 0,
   original_termios |-> "zero", mode |-> "NORMAL", num_rows |-> 0, row_capacity |-> 0,
   rows |-> NULL]

\* the process at the start of main, opening one of the files fs
Start(fs, short) ==
  /\ pc = "main"
  /\ E = E0
  /\ mem = [rows |-> <<>>, frees |-> 0]
  /\ term = "cooked"
  /\ hooks = <<>>
  /\ exit_codes = <<>>
  /\ err = <<>>
  /\ out = <<>>
  /\ writer = "none"
  /\ lost = 0
  /\ painted = NoOffset
  /\ printed = <<>>
  /\ nread = 0
  /\ inp = <<>>
  /\ key = NoKey
  /\ file \in [lines : fs, pos : {0}]
  /\ tc = [get |-> "no", raw |-> "no", restore |-> "no"]
  /\ oom = short

Init == Start(Files, FALSE)

InitOOM == Start(Files, TRUE)

InitLong == Start(LongFiles, FALSE)

Next ==
  \/ enableRawMode
  \/ initEditor
  \/ editorOpen
  \/ editorOpenLine
  \/ editorOpenEOF
  \/ editorProcessKeypress
  \/ editorReadKeyRetry
  \/ editorReadKeyFail
  \/ editorFreeHook
  \/ disableRawMode
  \/ ProcessEnd

Spec == Init /\ [][Next]_vars

\* the same program in a run where memory is short
SpecOOM == InitOOM /\ [][Next]_vars

\* the same program, opening also a file that makes the row table grow twice
SpecLong == InitLong /\ [][Next]_vars

(***************************************************************************)
(* Properties.                                                             *)
(***************************************************************************)
\* the process has called exit or was killed
Ending == {"atexit", "exited", "crashed"}

\* the process is gone
Terminated == {"exited", "crashed"}

\* a step of editorProcessKeypress that read a key and dispatched it
KeyStep == pc = "loop" /\ inp' # <<>>

\* the number of messages perror wrote for operation s
RECURSIVE Messages(_, _)
Messages(log, s) ==
  IF log = <<>> THEN 0
  ELSE (IF Head(log).msg = s THEN 1 ELSE 0) + Messages(Tail(log), s)

\* C1: with at least one screen row, in every state from the initial one on,
\* whatever MoveUp and MoveDown keys were processed, the viewport contains the
\* cursor row: 0 <= row_offset <= cur_row < row_offset + screen_rows.
C1_ViewportContainsCursor ==
  E.screen_rows >= 1 =>
    /\ 0 <= E.row_offset
    /\ E.row_offset <= E.cur_row
    /\ E.cur_row < E.row_offset + E.screen_rows

\* C1 witness: a MoveUp at the top of a scrolled viewport scrolled it up by
\* one row, and the viewport is still not at the top of the document.
C1_Witness ==
  /\ pc = "loop" /\ key = ARROW_UP /\ E.mode = "NORMAL"
  /\ E.screen_rows >= 1
  /\ E.row_offset > 0 /\ E.cur_row = E.row_offset
  /\ E.cur_row < E.num_rows - 1

\* cur_row is never negative and, in a document with rows, is a row of it
C2_Range ==
  /\ E.cur_row >= 0
  /\ E.num_rows > 0 => E.cur_row <= E.num_rows - 1

\* C2: cur_row is never negative and with num_rows > 0 lies in 0..num_rows-1
\* in every state; a MoveDown at the last row and a MoveUp at row 0 leave it
\* unchanged, and every other MoveDown/MoveUp moves it by exactly one row.
C2_CursorRowInDocument ==
  /\ C2_Range
  /\ [][ /\ C2_Range'
         /\ (KeyStep /\ E.mode = "NORMAL" /\ key' = ARROW_DOWN) =>
              E'.cur_row = IF E.cur_row >= E.num_rows - 1 THEN E.cur_row ELSE E.cur_row + 1
         /\ (KeyStep /\ E.mode = "NORMAL" /\ key' = ARROW_UP) =>
              E'.cur_row = IF E.cur_row = 0 THEN E.cur_row ELSE E.cur_row - 1 ]_vars

\* C2 witness: the cursor was moved down to the last row of a 3-row document.
C2_Witness ==
  /\ pc = "loop" /\ key = ARROW_DOWN /\ E.mode = "NORMAL"
  /\ E.num_rows = 3 /\ E.cur_row = 2

\* once the screen size is known, cur_col is a screen column
C3_Range == E.screen_cols >= 1 => (0 <= E.cur_col /\ E.cur_col <= E.screen_cols - 1)

\* C3: cur_col lies in 0..screen_cols-1 in every state; MoveRight at the last
\* screen column and MoveLeft at column 0 leave it unchanged; any other
\* MoveRight/MoveLeft moves it by one column whatever the length of the
\* current row.
C3_CursorColOnScreen ==
  /\ C3_Range
  /\ [][ /\ C3_Range'
         /\ (KeyStep /\ E.mode = "NORMAL" /\ key' = ARROW_RIGHT) =>
              E'.cur_col = IF E.cur_col = E.screen_cols - 1 THEN E.cur_col ELSE E.cur_col + 1
         /\ (KeyStep /\ E.mode = "NORMAL" /\ key' = ARROW_LEFT) =>
              E'.cur_col = IF E.cur_col = 0 THEN E.cur_col ELSE E.cur_col - 1 ]_vars

\* C3 witness: MoveRight put the cursor on the last screen column, past the
\* end of the current row.
C3_Witness ==
  /\ pc = "loop" /\ key = ARROW_RIGHT /\ E.mode = "NORMAL"
  /\ E.num_rows > 0
  /\ E.cur_col = E.screen_cols - 1
  /\ E.cur_col > mem.rows[E.cur_row + 1].size

\* C4: once the pristine attributes are captured and disableRawMode is
\* registered, a process that has terminated has called tcsetattr with the
\* pristine attributes.
C4_RestoreOnEveryExit ==
  (pc \in Terminated /\ tc.get = "ok") => tc.restore # "no"

C6_RestoreBeforePrint ==
  \A i \in 1..Len(err) : err[i].term = "cooked"

\* C7: a failed tcgetattr or tcsetattr is fatal: the key loop is not entered
\* or continued, a message naming the failing operation is printed for each
\* failure, and the process does not end with exit status 0.
C7_AttributeFailureFatal ==
  /\ (tc.get = "failed" \/ tc.raw = "failed" \/ tc.restore = "failed") => pc \in Ending
  /\ tc.get = "failed" => Messages(err, "tcgetattr") >= 1
  /\ Messages(err, "tcsetattr") >=
       (IF tc.raw = "failed" THEN 1 ELSE 0) + (IF tc.restore = "failed" THEN 1 ELSE 0)
  /\ ((tc.get = "failed" \/ tc.raw = "failed" \/ tc.restore = "failed") /\ pc = "exited") =>
       Last(exit_codes) # 0

\* C8: when a process that called die has terminated, the last bytes written
\* to the terminal are the clear-screen and home-cursor sequences.
C8_ClearScreenOnFatal ==
  (pc \in Terminated /\ err # <<>>) => out = clearScreen(ABUF_INIT).buf

\* VISUAL is never entered, and the editor starts in NORMAL
C9_Modes ==
  /\ E.mode \in {"NORMAL", "INSERT"}
  /\ pc \in {"main", "initEditor", "editorOpen", "getline"} => E.mode = "NORMAL"

\* C9: the mode starts as NORMAL and is always NORMAL or INSERT; it changes
\* only from NORMAL to INSERT on key i and from INSERT to NORMAL on a bare
\* escape, and these two keys do change it.
C9_ModeTransitions ==
  /\ C9_Modes
  /\ [][ /\ C9_Modes'
         /\ E'.mode # E.mode =>
              /\ KeyStep
              /\ \/ E.mode = "NORMAL" /\ key' = CHAR_i /\ E'.mode = "INSERT"
                 \/ E.mode = "INSERT" /\ key' = ESC /\ E'.mode = "NORMAL"
         /\ (KeyStep /\ E.mode = "NORMAL" /\ key' = CHAR_i) => E'.mode = "INSERT"
         /\ (KeyStep /\ E.mode = "INSERT" /\ key' = ESC) => E'.mode = "NORMAL" ]_vars

\* C9 witness: key i was processed and the editor is in INSERT mode, which
\* only a transition from the initial NORMAL mode reaches.
C9_Witness ==
  /\ pc = "loop" /\ inp = <<CHAR_i>> /\ key = CHAR_i
  /\ E.mode = "INSERT"

\* C10: the key editorReadKey returns for the bytes it read: ESC [ A/B/C/D
\* give k/j/l/h (up/down/right/left); an escape with no follow byte, with one
\* follow byte, or with two follow bytes other than [ and one of A-D gives a
\* bare escape; any other first byte is returned as it is; and a read that
\* returned no byte returns no key.
C10_DecodeTable ==
  /\ nread # 1 => (inp = <<>> /\ key = NoKey)
  /\ inp # <<>> =>
       /\ inp[1] # ESC => (Len(inp) = 1 /\ key = inp[1])
       /\ inp[1] = ESC =>
            /\ Len(inp) \in {2, 3}
            /\ Len(inp) = 2 => (inp[2] = NoByte /\ key = 27)
            /\ (Len(inp) = 3 /\ inp[3] = NoByte) => key = 27
            /\ inp = <<27, 91, 65>> => key = 107
            /\ inp = <<27, 91, 66>> => key = 106
            /\ inp = <<27, 91, 67>> => key = 108
            /\ inp = <<27, 91, 68>> => key = 104
            /\ (Len(inp) = 3 /\ inp[3] # NoByte /\ ~(inp[2] = 91 /\ inp[3] \in 65..68)) =>
                 key = 27

\* C10 witness: the sequence ESC [ D was decoded to the left key.
C10_Witness ==
  /\ inp = <<ESC, LBRACKET, CHAR_D>> /\ key = ARROW_LEFT
  /\ pc = "loop" /\ nread = 1

\* a number below 100 in decimal digits
Decimal(n) == IF n < 10 THEN <<48 + n>> ELSE <<48 + (n \div 10), 48 + (n % 10)>>

\* screen rows y..screen_rows-1 of the frame for editor state e and document
\* doc: the visible part of the row, or the fill marker, then ESC[K, then
\* CR LF on all but the last screen row
RECURSIVE FrameRows(_, _, _)
FrameRows(e, doc, y) ==
  IF y > e.screen_rows - 1 THEN <<>>
  ELSE (IF y + e.row_offset + 1 \in 1..Len(doc)
        THEN LET r == doc[y + e.row_offset + 1]
             IN SubSeq(r.contents, 1, IF r.size < e.screen_cols THEN r.size ELSE e.screen_cols)
        ELSE <<126>>)
       \o <<27, 91, 75>>
       \o (IF y < e.screen_rows - 1 THEN <<13, 10>> ELSE <<>>)
       \o FrameRows(e, doc, y + 1)

\* the whole frame: ESC[?25l ESC[H rows ESC[row;colH ESC[?25h
FrameOf(e, doc) ==
  <<27, 91, 63, 50, 53, 108>> \o <<27, 91, 72>> \o FrameRows(e, doc, 0)
  \o <<27, 91>> \o Decimal(e.cur_row - e.row_offset + 1) \o <<59>> \o Decimal(e.cur_col + 1)
  \o <<72>>
  \o <<27, 91, 63, 50, 53, 104>>

\* the document a, bb, ccc at load on a screen of 24 rows and 80 columns
ScenarioE ==
  [E0 EXCEPT !.screen_rows = 24, !.screen_cols = 80, !.num_rows = 3,
             !.row_capacity = INITIAL_CAPACITY, !.rows = "table"]

ScenarioRows ==
  << [size |-> 1, contents |-> <<97, NUL>>], [size |-> 2, contents |-> <<98, 98, NUL>>],
     [size |-> 3, contents |-> <<99, 99, 99, NUL>>] >>

\* the bytes of n fill rows, each but the last followed by CR LF
RECURSIVE FillRows(_)
FillRows(n) ==
  IF n = 0 THEN <<>>
  ELSE <<126, 27, 91, 75>> \o (IF n > 1 THEN <<13, 10>> ELSE <<>>) \o FillRows(n - 1)

ScenarioFrame ==
  <<27, 91, 63, 50, 53, 108, 27, 91, 72>>
  \o <<97, 27, 91, 75, 13, 10>> \o <<98, 98, 27, 91, 75, 13, 10>>
  \o <<99, 99, 99, 27, 91, 75, 13, 10>> \o FillRows(21)
  \o <<27, 91, 49, 59, 49, 72>> \o <<27, 91, 63, 50, 53, 104>>

\* C11: whenever the most recent write is that of a full refresh, its bytes
\* are the frame of the current state: hide cursor, home, each screen row
\* (the first min(length, screen_cols) bytes of the document row, or ~, then
\* ESC[K, then CR LF except on the last row), the cursor position, show
\* cursor; and for the document a, bb, ccc on a 24x80 screen at load the
\* frame is rows a, bb, ccc, 21 fill rows and the cursor at (1,1).
C11_RefreshEmitsFrame ==
  /\ writer = "editorRefreshScreen" => out = FrameOf(E, mem.rows)
  /\ editorRefreshScreen(ScenarioE, Heap([rows |-> ScenarioRows], {})).out = ScenarioFrame

\* the second of two consecutive refreshes repeats the output of the first, r1,
\* and leaves the editor state as the first left it
SameAgain(r1, r2) == r2.out = r1.out /\ r2.E = r1.E

\* the refreshes that can follow the refresh r1 are all like it
Repeats(r1) ==
  \A f2 \in FailSets(r1.calls) : SameAgain(r1, editorRefreshScreen(r1.E, Heap(mem, f2)))

\* C12: in every state of the key loop, two consecutive calls of
\* editorRefreshScreen write byte-identical frames, and the second call
\* changes no editor state.
C12_RefreshIdempotent ==
  pc = "loop" =>
    \A f1 \in FailSets(editorRefreshScreen(E, Heap(mem, {})).calls) :
      Repeats(editorRefreshScreen(E, Heap(mem, f1)))

\* a line without the '\n' and '\r' characters at its end
RECURSIVE Stripped(_)
Stripped(line) ==
  IF line # <<>> /\ line[Len(line)] \in {10, 13}
  THEN Stripped(SubSeq(line, 1, Len(line) - 1))
  ELSE line

\* the row a source line becomes: its stripped bytes, NUL-terminated
RowOf(line) == [size |-> Len(Stripped(line)), contents |-> Stripped(line) \o <<0>>]

\* the first n lines of the file are the n rows, in file order
Loaded(n) ==
  /\ E.num_rows = n
  /\ Len(mem.rows) = n
  /\ \A i \in 1..n : mem.rows[i] = RowOf(file.lines[i])

\* what loading has built so far
Store == <<E.num_rows, E.row_capacity, mem.rows, file, err, pc>>

\* The rows are the lines read so far (but for the last of them when its
\* allocation failed), all lines once the key loop runs, and they fit the
\* allocated capacity.
C13_Rows ==
  /\ Loaded(IF Messages(err, "realloc rows") + Messages(err, "malloc row contents") > 0
            THEN file.pos - 1 ELSE file.pos)
  /\ pc = "loop" => file.pos = Len(file.lines)
  /\ E.num_rows <= E.row_capacity

\* C13: loading a file of N lines gives exactly N rows in file order, each
\* the source line without its trailing '\n' and '\r' and otherwise
\* unaltered (an empty line is a row of length 0); the row count never
\* decreases and never exceeds the row capacity, which grows only when the
\* table is full, to 16 first and by doubling after that.
C13_LoadRoundTrip ==
  /\ C13_Rows
  /\ [][ /\ Store' # Store => C13_Rows'
         /\ E'.num_rows >= E.num_rows
         /\ E'.row_capacity # E.row_capacity =>
              /\ E.num_rows = E.row_capacity
              /\ E'.row_capacity = IF E.row_capacity = 0 THEN 16 ELSE 2 * E.row_capacity ]_vars

\* C13 witness: a file of 17 lines is loaded: the row table grew from 16 to
\* 32 rows, the third row is empty, the second keeps its inner '\r' and the
\* last line had no newline.
C13_Witness ==
  /\ pc = "loop" /\ Len(file.lines) = 17
  /\ E.num_rows = 17 /\ E.row_capacity = 32
  /\ mem.rows[3] = [size |-> 0, contents |-> <<0>>]
  /\ mem.rows[2] = [size |-> 3, contents |-> <<98, 13, 98, 0>>]
  /\ mem.rows[17] = [size |-> 1, contents |-> <<113, 0>>]

\* die was called: a message is written, or the process crashed
Fatal == pc \in Ending /\ (err # <<>> \/ pc = "crashed") /\ (pc = "exited" => Last(exit_codes) # 0)

\* C14: an allocation failure is fatal: when the row table or a row's
\* contents could not be allocated (a line was read and no row appended), and
\* when realloc failed for the append buffer of a frame, the process has
\* gone through die and does not end with status 0; it is not in the key
\* loop with a partially built frame written.
C14_AllocationFailureFatal ==
  /\ E.num_rows < file.pos => Fatal
  /\ lost > 0 => Fatal

\* what processing the key read as `reads` does in the current state: the
\* key symbol, the next editor state, the bytes written and the bytes printed
Outcome(reads, g, d) ==
  [key |-> editorReadKey(reads), E |-> d.E, wrote |-> d.wrote,
   printed |-> editorReadKeyPrintf(reads, g) \o d.printed, exit |-> d.exit]

KeyOutcome(reads, g) == Outcome(reads, g, Dispatch(E, Heap(mem, {}), editorReadKey(reads)))

\* the letter and the final byte of the arrow sequence of each direction
Aliases == { <<104, 68>>, <<106, 66>>, <<107, 65>>, <<108, 67>> }

\* C15: in every state of the key loop, in either mode, a bare h, j, k or l
\* and the arrow sequence of the same direction (ESC[D, ESC[B, ESC[A, ESC[C)
\* give the same key symbol, the same next editor state and the same
\* terminal output.
C15_ArrowAliasing ==
  pc = "loop" =>
    \A a \in Aliases, g \in Garbage :
      KeyOutcome(<<a[1]>>, g) = KeyOutcome(<<27, 91, a[2]>>, g)

\* the scroll recomputation of state e says "changed" exactly when it
\* changed the scroll offset
SignalTrue(e) == editorScroll(e).scrolled <=> (editorScroll(e).E.row_offset # e.row_offset)

\* the change signal is true to the change for every recomputation the key
\* loop can ask for: of the current state, and after a MoveDown or a MoveUp
C16_Signal == pc = "loop" => (SignalTrue(E) /\ SignalTrue(ArrowDown(E)) /\ SignalTrue(ArrowUp(E)))

\* the bytes ESC[row;colH for the cursor of the next state
C16_Cursor ==
  <<27, 91>> \o Decimal(E'.cur_row - E'.row_offset + 1) \o <<59>> \o Decimal(E'.cur_col + 1)
  \o <<72>>

\* What a motion key does in NORMAL mode: MoveDown and MoveUp refresh the
\* whole screen exactly when the scroll offset changed and only reposition
\* the cursor otherwise; MoveLeft and MoveRight only reposition the cursor.
C16_Step ==
  (KeyStep /\ E.mode = "NORMAL") =>
    /\ (key' \in {ARROW_DOWN, ARROW_UP} /\ E'.row_offset # E.row_offset) =>
         (writer' = "editorRefreshScreen" /\ painted' = E'.row_offset)
    /\ (key' \in {ARROW_DOWN, ARROW_UP} /\ E'.row_offset = E.row_offset) =>
         (writer' = "moveCursor" /\ out' = C16_Cursor /\ painted' = painted)
    /\ key' \in {ARROW_LEFT, ARROW_RIGHT} =>
         (writer' = "moveCursor" /\ out' = C16_Cursor /\ painted' = painted
          /\ E'.row_offset = E.row_offset)

\* C16 as stated: on any screen, a MoveDown or MoveUp in NORMAL mode does a
\* full refresh exactly when the scroll recomputation changed the offset and
\* a cursor reposition otherwise, MoveLeft and MoveRight do only the
\* reposition, and the change signal is true iff the offset changed.
C16_RefreshIffScrolled ==
  /\ C16_Signal
  /\ [][C16_Step /\ C16_Signal']_vars

\* The same restricted to a screen of at least one row, where it holds: the
\* statement above fails only on a window of zero rows.
C16_OnScreen ==
  /\ E.screen_rows >= 1 => C16_Signal
  /\ [][E.screen_rows >= 1 => (C16_Step /\ C16_Signal')]_vars

\* On a screen with rows, a MoveDown off the last screen row scrolled the
\* viewport and the screen was fully refreshed.
C16_Scrolled ==
  /\ pc = "loop" /\ key = ARROW_DOWN /\ E.mode = "NORMAL" /\ E.screen_rows >= 1
  /\ writer = "editorRefreshScreen" /\ painted = E.row_offset
  /\ E.row_offset > 0 /\ E.cur_row = E.row_offset + E.screen_rows - 1

\* the diagnostic echo is among the printf calls p
Echoed(p) == \E n \in 1..Len(p) : p[n].fmt = "%d ('%c')\r\n"

\* C17: a key is dispatched through the table of the mode current when it was
\* read: `i` read in NORMAL mode only sets the mode to INSERT and produces no
\* output, and the diagnostic echo is printed only for a key read while the
\* mode is already INSERT.
C17_OneModePerKey ==
  [][KeyStep =>
       /\ (E.mode = "NORMAL" /\ key' = CHAR_i) =>
            /\ E' = [E EXCEPT !.mode = "INSERT"]
            /\ printed' = <<>>
            /\ UNCHANGED <<out, writer, mem, term, pc>>
       /\ Echoed(printed') => E.mode = "INSERT"]_vars

\* the keys the NORMAL table has a case for
NormalKeys ==
  {ARROW_DOWN, ARROW_UP, ARROW_RIGHT, ARROW_LEFT, CHAR_i, CTRL_KEY(CHAR_q), CTRL_KEY(CHAR_r)}

\* C18: a key read in INSERT mode (motions, arrow sequences and the refresh
\* combo included) changes none of cursor row, cursor column and scroll
\* offset; a key read in NORMAL mode that is not a motion, `i`, quit or
\* refresh changes no editor state; and no key in any mode changes the
\* Document Store: row count, row table and row contents stay as loaded.
C18_FrameOfKeys ==
  [][KeyStep =>
       /\ E.mode = "INSERT" =>
            /\ E'.cur_row = E.cur_row
            /\ E'.cur_col = E.cur_col
            /\ E'.row_offset = E.row_offset
       /\ (E.mode = "NORMAL" /\ key' \notin NormalKeys) => E' = E
       /\ mem' = mem
       /\ E'.num_rows = E.num_rows
       /\ E'.rows = E.rows
       /\ E'.row_capacity = E.row_capacity]_vars

\* C18 witness: in INSERT mode, with the cursor on a middle row of a loaded
\* document where a motion had room to move it, a down arrow sequence was
\* processed.
C18_Witness ==
  /\ pc = "loop" /\ E.mode = "INSERT"
  /\ inp = <<ESC, LBRACKET, CHAR_B>> /\ key = ARROW_DOWN
  /\ E.cur_row > 0 /\ E.cur_row < E.num_rows - 1

\* C19: once rows are loaded, on every exit path the row table and the rows'
\* contents are released at most once, and exit is not called again while
\* the exit hooks run (the hooks are not re-entered).
C19_ReleasedOnce ==
  E.rows # NULL =>
    /\ mem.frees <= 1
    /\ Len(exit_codes) <= 1

\* byte i of s is a decimal digit
Digit(s, i) == i <= Len(s) /\ s[i] \in 48..57

\* the number of digits, up to two, that s holds from byte i on
DigitsAt(s, i) == IF Digit(s, i) THEN (IF Digit(s, i + 1) THEN 2 ELSE 1) ELSE 0

\* the number written in the n digits of s from byte i on
NumAt(s, i, n) == IF n = 1 THEN s[i] - 48 ELSE (s[i] - 48) * 10 + (s[i + 1] - 48)

\* The cursor position <<row, column>> that the bytes of s from byte i on
\* send the terminal's cursor to: ESC [ row ; column H, or ESC [ H for the
\* home position; <<>> when no such sequence starts at byte i.
CursorAt(s, i) ==
  LET n1 == DigitsAt(s, i + 2)
      j == i + 2 + n1
      n2 == DigitsAt(s, j + 1)
      k == j + 1 + n2
  IN IF i + 2 <= Len(s) /\ s[i] = 27 /\ s[i + 1] = 91
     THEN IF s[i + 2] = 72 THEN <<1, 1>>
          ELSE IF n1 > 0 /\ j <= Len(s) /\ s[j] = 59 /\ n2 > 0 /\ k <= Len(s) /\ s[k] = 72
               THEN <<NumAt(s, i + 2, n1), NumAt(s, j + 1, n2)>>
               ELSE <<>>
     ELSE <<>>

\* the position the last cursor positioning sequence in s names
LastCursor(s) ==
  LET hits == {i \in 1..Len(s) : CursorAt(s, i) # <<>>}
  IN IF hits = {} THEN <<>> ELSE CursorAt(s, CHOOSE i \in hits : \A h \in hits : h <= i)

\* The viewport on the terminal is the one of the state: the last full
\* repaint drew from the current scroll offset, and the cursor position
\* emitted last is (cur_row - row_offset + 1, cur_col + 1), on the screen.
Fresh ==
  /\ painted = E.row_offset
  /\ LastCursor(out) = <<E.cur_row - E.row_offset + 1, E.cur_col + 1>>
  /\ E.cur_row - E.row_offset + 1 \in 1..E.screen_rows
  /\ E.cur_col + 1 \in 1..E.screen_cols

\* C20: the screen never shows a stale viewport: after the first refresh and
\* after every processed key, the scroll offset of the most recent full
\* repaint is the current scroll offset, and the cursor position emitted last
\* is (cur_row - row_offset + 1, cur_col + 1), within 1..screen_rows by
\* 1..screen_cols.
C20_NoStaleViewport == pc = "loop" => Fresh

\* The same restricted to a screen of at least one row.
C20_OnScreen == (pc = "loop" /\ E.screen_rows >= 1) => Fresh

\* On a screen with rows a cursor-only motion followed a scroll: the rows on
\* the terminal were painted by an earlier refresh.
C20_CursorOnly ==
  /\ pc = "loop" /\ E.screen_rows >= 1 /\ writer = "moveCursor"
  /\ key \in {ARROW_UP, ARROW_DOWN} /\ E.row_offset > 0

====
